---- MODULE Spec2Model ----
(***************************************************************************)
(* Model of the Excel add-in's template engine: smart range expansion,     *)
(* template structure validation and value placement.                      *)
(*                                                                         *)
(* A range is a record [rowIndex, columnIndex, rowCount, columnCount] in   *)
(* absolute sheet coordinates.  Field positions are relative to the range  *)
(* they were analysed in.                                                  *)
(***************************************************************************)
EXTENDS Integers, Sequences, FiniteSets, TLC

(***************************************************************************)
(* Bounds of the model.                                                    *)
(***************************************************************************)
\* largest row/column index at which a selection or a detected region starts
MaxOffset == 3
\* largest number of rows of a selection or a detected region
MaxRows == 4
\* largest number of columns of a selection or a detected region
MaxCols == 6
\* largest number of rows and of columns of an analysed template grid; the
\* coordinates of a model response range over -1..MaxDim-1
MaxDim == 2
\* largest row/column index at which a populated template range starts
MaxOrigin == 1
\* largest number of records in the mapped data
MaxRecords == 2
\* largest number of non-empty cells in a populated template grid
MaxTexts == 2
\* largest number of mismatches in a comparison result
MaxMismatches == 2
\* largest number of highlightMismatches calls, of validation runs and of
\* Run clicks in one behaviour
MaxCalls == 2

VARIABLES
  pc,             \* position of the template analysis call
  selectedRange,  \* the user's selection
  smartRange,     \* result of getSmartRange
  rangeSource,    \* getSmartRange's rangeSource
  probes,         \* grid probes issued by getSmartRange
  failures,       \* the probes among them that failed
  currentRegion,  \* what getCurrentRegion loaded (NoRange: nothing)
  usedRange,      \* what getUsedRange loaded (NoRange: nothing)
  templateRange,  \* result of getSmartTemplateRange
  analyzerCalls,  \* ranges handed to analyzeTemplateStructure, in order
  analysedRange,  \* templateRange of the returned analysis
  raised,         \* error that left analyzeTemplateSmart, or "none"
  \* --- analyzeTemplateStructure on one model response ---
  gridSize,       \* <<rows, columns>> of templateData
  analysis,       \* what analyzeTemplateStructure did: nothing yet, the
                  \* returned structure, or the error thrown
  \* --- populateTemplate ---
  values,         \* templateRange.values as populateTemplate loaded them
  mappedData,     \* the mapped rows handed to populateTemplate
  validatedRows,  \* the rows populateTemplate handed to the cell placement
  targets,        \* absolute targets computed by the call, in order
  writes,         \* cells written by the call, in order
  populateError,  \* error thrown by the call, or "none"
  writeFailure,   \* the cell write that failed and what the error names
  \* --- highlightMismatches ---
  negativeGetCell, \* what getCell does with an index below zero
  reported,       \* the mismatch list of the latest call
  fills,          \* cells of the sheet that carry the red fill
  fillsBefore,    \* fills when the latest call started
  annotations,    \* cells the latest call attached a comment to
  attachOutcomes, \* how comments.add went for each valid mismatch
  calls,          \* number of calls (validation runs) so far
  \* --- handleRunButton and executePopulation ---
  runs,           \* per Run click: position, locals and outcome of the run
  appState,       \* the shared state object of state.js
  statusText,     \* the status line
  stageLog,       \* stages started, in order, with the run that started them
  cellLog         \* population writes, in order, with the run that issued them

rangeVars == <<pc, selectedRange, smartRange, rangeSource, probes, failures,
               currentRegion, usedRange, templateRange, analyzerCalls, analysedRange, raised>>

analysisVars == <<gridSize, analysis>>

populateVars == <<values, mappedData, validatedRows, targets, writes, populateError,
                  writeFailure>>

validationVars == <<negativeGetCell, reported, fills, fillsBefore, annotations,
                    attachOutcomes, calls>>

runVars == <<runs, appState, statusText, stageLog, cellLog>>

vars == <<rangeVars, analysisVars, populateVars, validationVars, runVars>>

Max(a, b) == IF a >= b THEN a ELSE b

Range(r, c, rc, cc) ==
  [rowIndex |-> r, columnIndex |-> c, rowCount |-> rc, columnCount |-> cc]

NoRange == Range(0, 0, 0, 0)

\* outcome of a grid call: it failed, or it produced a range
Failed == [ok |-> FALSE, range |-> NoRange]
Loaded(r) == [ok |-> TRUE, range |-> r]

ContainsCell(r, row, col) ==
  /\ r.rowIndex <= row /\ row < r.rowIndex + r.rowCount
  /\ r.columnIndex <= col /\ col < r.columnIndex + r.columnCount

\* the selections the user can make
Selections ==
  { Range(r, c, rc, cc) : r \in 0..MaxOffset, c \in 0..MaxOffset,
                          rc \in 1..MaxRows, cc \in 1..MaxCols }

\* what getCurrentRegion can answer for a selected cell: the contiguous block
\* around it (the cell itself when it is isolated), or a failure
CurrentRegionOutcomes(sel) ==
  {Failed} \cup
  { Loaded(Range(r, c, rc, cc)) :
      r \in 0..sel.rowIndex, c \in 0..sel.columnIndex,
      rc \in 1..MaxRows, cc \in 1..MaxCols }

\* what getUsedRange can answer: the occupied range (possibly degenerate), or
\* a failure
UsedRangeOutcomes ==
  {Failed} \cup
  { Loaded(Range(r, c, rc, cc)) :
      r \in 0..1, c \in 0..1, rc \in 0..MaxRows, cc \in 0..MaxCols }

(***************************************************************************)
(* excel.service.js: range helpers                                         *)
(***************************************************************************)
addRangePadding(detectedRange, rowPadding, colPadding) ==
  LET startRow == Max(0, detectedRange.rowIndex - rowPadding)
      startCol == Max(0, detectedRange.columnIndex - colPadding)
      endRow == detectedRange.rowIndex + detectedRange.rowCount + rowPadding - 1
      endCol == detectedRange.columnIndex + detectedRange.columnCount + colPadding - 1
  IN Range(startRow, startCol, endRow - startRow + 1, endCol - startCol + 1)

\* slip: a range is turned down only when both extents are below two
isValidTemplateRange_BothBelowTwo(range) ==
  IF range.rowCount < 2 /\ range.columnCount < 2 THEN FALSE
  ELSE IF range.rowCount = 1 /\ range.columnCount > 10 THEN FALSE
  ELSE IF range.columnCount = 1 /\ range.rowCount > 20 THEN FALSE
  ELSE TRUE

isValidTemplateRange(range) ==
  IF range.rowCount < 2 \/ range.columnCount < 2 THEN FALSE
  ELSE IF range.rowCount = 1 /\ range.columnCount > 10 THEN FALSE
  ELSE IF range.columnCount = 1 /\ range.rowCount > 20 THEN FALSE
  ELSE TRUE

\* slip: a one-row selection is taken for a single cell
IsSingleCell_RowOnly(range) == range.rowCount = 1

IsSingleCell(range) == range.rowCount = 1 /\ range.columnCount = 1

\* slip: bestRange is assigned before the padding call, so a failed padding
\* leaves the unpadded current region selected
CurrentRegionTier_AssignBeforePadding(sel, cr, padOk) ==
  LET original == [best |-> sel, source |-> "original",
                   probes |-> {"currentRegion"}, failures |-> {}]
  IN IF ~cr.ok THEN [original EXCEPT !.failures = {"currentRegion"}]
     ELSE IF isValidTemplateRange(cr.range)
       THEN [original EXCEPT !.best = cr.range, !.source = "currentRegion"]
     ELSE IF cr.range.rowCount > 1 \/ cr.range.columnCount > 1
       THEN IF ~padOk
              THEN [original EXCEPT !.best = cr.range, !.source = "currentRegion",
                                    !.probes = {"currentRegion", "padding"},
                                    !.failures = {"padding"}]
            ELSE [original EXCEPT !.best = addRangePadding(cr.range, 3, 2),
                                  !.source = "paddedCurrentRegion",
                                  !.probes = {"currentRegion", "padding"}]
     ELSE original

\* first tier of getSmartRange: the try block around getCurrentRegion and
\* addRangePadding; any failure inside it leaves bestRange/rangeSource alone
CurrentRegionTier(sel, cr, padOk) ==
  LET original == [best |-> sel, source |-> "original",
                   probes |-> {"currentRegion"}, failures |-> {}]
  IN IF ~cr.ok THEN [original EXCEPT !.failures = {"currentRegion"}]
     ELSE IF isValidTemplateRange(cr.range)
       THEN [original EXCEPT !.best = cr.range, !.source = "currentRegion"]
     ELSE IF cr.range.rowCount > 1 \/ cr.range.columnCount > 1
       THEN IF ~padOk
              THEN [original EXCEPT !.probes = {"currentRegion", "padding"},
                                    !.failures = {"padding"}]
            ELSE LET paddedRange == addRangePadding(cr.range, 3, 2)
                 IN IF isValidTemplateRange(paddedRange)
                      THEN [original EXCEPT !.best = paddedRange,
                                            !.source = "paddedCurrentRegion",
                                            !.probes = {"currentRegion", "padding"}]
                      ELSE [original EXCEPT !.best = cr.range,
                                            !.source = "currentRegion",
                                            !.probes = {"currentRegion", "padding"}]
     ELSE original

\* slip: the used range is taken without the rowCount/columnCount check
UsedRangeTier_NoExtentCheck(t1, ur) ==
  IF t1.source # "original" THEN t1
  ELSE IF ~ur.ok
    THEN [t1 EXCEPT !.probes = @ \cup {"usedRange"}, !.failures = @ \cup {"usedRange"}]
  ELSE [t1 EXCEPT !.best = ur.range, !.source = "usedRange",
                  !.probes = @ \cup {"usedRange"}]

\* second tier of getSmartRange: the worksheet's used range, tried only when
\* the first tier left rangeSource at "original"
UsedRangeTier(t1, ur) ==
  IF t1.source # "original" THEN t1
  ELSE IF ~ur.ok
    THEN [t1 EXCEPT !.probes = @ \cup {"usedRange"}, !.failures = @ \cup {"usedRange"}]
  ELSE IF ur.range.rowCount > 0 /\ ur.range.columnCount > 0
    THEN [t1 EXCEPT !.best = ur.range, !.source = "usedRange",
                    !.probes = @ \cup {"usedRange"}]
  ELSE [t1 EXCEPT !.probes = @ \cup {"usedRange"}]

getSmartRange(sel, cr, padOk, ur) ==
  IF IsSingleCell(sel)
    THEN UsedRangeTier(CurrentRegionTier(sel, cr, padOk), ur)
    ELSE [best |-> sel, source |-> "selection", probes |-> {}, failures |-> {}]

\* the padding getSmartTemplateRange asks for, <<rows, cols>>, or <<>> when
\* the smart range is used as it is
TemplatePadding(range) ==
  IF range.rowCount = 1 THEN <<8, 2>>
  ELSE IF range.rowCount <= 2 /\ range.columnCount > 5 THEN <<5, 1>>
  ELSE IF range.rowCount > 3 /\ range.columnCount < 3 THEN <<1, 3>>
  ELSE <<>>

getSmartTemplateRange(range, padOk) ==
  LET p == TemplatePadding(range)
  IN IF p = <<>> \/ ~padOk THEN range
     ELSE addRangePadding(range, p[1], p[2])

\* the range of the emergency expansion of analyzeTemplateSmart
EmergencyRange(range) ==
  Range(range.rowIndex, range.columnIndex, Max(10, range.rowCount), range.columnCount)

NeedsEmergency(range) == range.rowCount = 1 /\ range.columnCount > 3

\* the object analyzeTemplateSmart returns: wasExpanded is true on the
\* emergency path and wasSingleCell otherwise
SmartAnalysis(originalRange, emergency) ==
  [kind |-> "smart",
   wasExpanded |-> IF emergency THEN TRUE ELSE IsSingleCell(originalRange)]

(***************************************************************************)
(* The template analysis call, analyzeTemplateSmart, step by step.         *)
(***************************************************************************)
NothingPopulated ==
  /\ values = <<>>
  /\ mappedData = <<>>
  /\ validatedRows = <<>>
  /\ targets = <<>>
  /\ writes = <<>>
  /\ populateError = "none"
  /\ writeFailure = [index |-> 0]

NothingHighlighted ==
  /\ negativeGetCell = "error"
  /\ reported = <<>>
  /\ fills = {}
  /\ fillsBefore = {}
  /\ annotations = {}
  /\ attachOutcomes = <<>>
  /\ calls = 0

NoRuns ==
  /\ runs = <<>>
  /\ appState = [kind |-> "unused"]
  /\ statusText = [text |-> "", message |-> ""]
  /\ stageLog = <<>>
  /\ cellLog = <<>>

RangeInit ==
  /\ pc = "idle"
  /\ selectedRange = NoRange
  /\ smartRange = NoRange
  /\ rangeSource = "none"
  /\ probes = {}
  /\ failures = {}
  /\ currentRegion = NoRange
  /\ usedRange = NoRange
  /\ templateRange = NoRange
  /\ analyzerCalls = <<>>
  /\ analysedRange = NoRange
  /\ raised = "none"
  /\ gridSize = <<0, 0>>
  /\ analysis = [kind |-> "idle"]
  /\ NothingPopulated
  /\ NothingHighlighted
  /\ NoRuns

\* the user selects a range and starts the analysis
Select ==
  /\ pc = "idle"
  /\ \E sel \in Selections : selectedRange' = sel
  /\ pc' = "selected"
  /\ UNCHANGED <<smartRange, rangeSource, probes, failures, currentRegion,
                 usedRange, templateRange, analyzerCalls, analysedRange, raised>>
  /\ UNCHANGED <<analysisVars, populateVars, validationVars, runVars>>

SmartRangeResult(res) ==
  /\ smartRange' = res.best
  /\ rangeSource' = res.source
  /\ probes' = res.probes
  /\ failures' = res.failures

\* getSmartRange: a multi-cell selection is returned as it is; a single cell
\* probes the current region (cr, padOk: outcomes of the grid calls) and,
\* when that left rangeSource at "original", the used range (ur)
GetSmartRange ==
  /\ pc = "selected"
  /\ IF IsSingleCell(selectedRange)
       THEN \E cr \in CurrentRegionOutcomes(selectedRange), padOk \in BOOLEAN :
              /\ cr.ok => ContainsCell(cr.range, selectedRange.rowIndex,
                                       selectedRange.columnIndex)
              /\ currentRegion' = cr.range
              /\ IF CurrentRegionTier(selectedRange, cr, padOk).source = "original"
                   THEN \E ur \in UsedRangeOutcomes :
                          /\ SmartRangeResult(getSmartRange(selectedRange, cr, padOk, ur))
                          /\ usedRange' = ur.range
                   ELSE /\ SmartRangeResult(getSmartRange(selectedRange, cr, padOk, Failed))
                        /\ usedRange' = NoRange
       ELSE /\ SmartRangeResult(getSmartRange(selectedRange, Failed, FALSE, Failed))
            /\ currentRegion' = NoRange
            /\ usedRange' = NoRange
  /\ pc' = "smart"
  /\ UNCHANGED <<selectedRange, templateRange, analyzerCalls, analysedRange, raised>>
  /\ UNCHANGED <<analysisVars, populateVars, validationVars, runVars>>

GetSmartTemplateRange ==
  /\ pc = "smart"
  /\ \E padOk \in BOOLEAN : templateRange' = getSmartTemplateRange(smartRange, padOk)
  /\ pc' = "template"
  /\ UNCHANGED <<selectedRange, smartRange, rangeSource, probes, failures,
                 currentRegion, usedRange, analyzerCalls, analysedRange, raised>>
  /\ UNCHANGED <<analysisVars, populateVars, validationVars, runVars>>

\* the rest of analyzeTemplateSmart: the empty check, the emergency expansion
\* with its own analysis inside the try block, and the ordinary analysis.
\* emOk: the emergency grid call succeeds; an1, an2: the structure analysis
\* of the emergency range / of templateRange succeeds.
AnalyzeTemplateSmart ==
  /\ pc = "template"
  /\ \E emOk \in BOOLEAN, an1 \in BOOLEAN, an2 \in BOOLEAN :
       IF templateRange.rowCount = 0 \/ templateRange.columnCount = 0
         THEN /\ raised' = "EmptyRegionError"
              /\ pc' = "failed"
              /\ UNCHANGED <<analyzerCalls, analysedRange, analysis>>
       ELSE IF NeedsEmergency(templateRange) /\ emOk /\ an1
         THEN /\ analyzerCalls' = <<EmergencyRange(templateRange)>>
              /\ analysedRange' = EmergencyRange(templateRange)
              /\ analysis' = SmartAnalysis(selectedRange, TRUE)
              /\ pc' = "analysed"
              /\ UNCHANGED raised
       ELSE LET before == IF NeedsEmergency(templateRange) /\ emOk
                            THEN <<EmergencyRange(templateRange)>> ELSE <<>>
            IN /\ analyzerCalls' = Append(before, templateRange)
               /\ IF an2
                    THEN /\ analysedRange' = templateRange
                         /\ analysis' = SmartAnalysis(selectedRange, FALSE)
                         /\ pc' = "analysed"
                         /\ UNCHANGED raised
                    ELSE /\ raised' = "AnalysisError"
                         /\ pc' = "failed"
                         /\ UNCHANGED <<analysedRange, analysis>>
  /\ UNCHANGED <<selectedRange, smartRange, rangeSource, probes, failures,
                 currentRegion, usedRange, templateRange>>
  /\ UNCHANGED <<gridSize, populateVars, validationVars, runVars>>

RangeNext ==
  \/ Select
  \/ GetSmartRange
  \/ GetSmartTemplateRange
  \/ AnalyzeTemplateSmart

SpecRange == RangeInit /\ [][RangeNext]_vars

(***************************************************************************)
(* gemini.service.js: analyzeTemplateStructure on a parsed model response  *)
(***************************************************************************)
\* a coordinate the model left out reads as undefined
Undefined == -99

\* JavaScript's < and > : false as soon as one side is undefined
JsLess(a, b) == a # Undefined /\ b # Undefined /\ a < b
JsGreater(a, b) == a # Undefined /\ b # Undefined /\ a > b

Coordinates == {Undefined} \cup (-1 .. MaxDim - 1)

Locations == [row : Coordinates, col : Coordinates]

\* a location object the model left out altogether
NoLocation == [row |-> -98, col |-> -98]

Orientations == {"vertical", "horizontal", ""}

\* an orientation text the response schema does not rule out at run time
OtherOrientation == "diagonal"

\* texts are sequences of characters
FieldNames == << <<"a">>, <<"b">> >>

\* the i-th field of a response: its name is its label text
ResponseFields(i) ==
  [fieldName : {FieldNames[i]}, fieldLocation : Locations \cup {NoLocation},
   valueLocation : Locations \cup {NoLocation}]

\* the parsed responses: an orientation (possibly empty) and a list of fields
\* (notArray: the fields property is not an array)
Responses ==
  [orientation : Orientations, notArray : {TRUE}, fields : {<<>>}]
  \cup [orientation : Orientations, notArray : {FALSE},
        fields : {<<>>} \cup { <<f>> : f \in ResponseFields(1) }
                 \cup { <<f, g>> : f \in ResponseFields(1), g \in ResponseFields(2) }]
  \cup [orientation : {OtherOrientation}, notArray : {FALSE},
        fields : { <<f>> : f \in ResponseFields(1) }]

\* maxCol = templateData[0]?.length - 1 || 0
MaxColOf(cols) == IF cols - 1 = 0 THEN 0 ELSE cols - 1

\* slip: the column test compares against the value's row
ValidateField_ColumnAgainstRow(field, maxRow, maxCol) ==
  LET fieldLocation == field.fieldLocation
      valueLocation == field.valueLocation
  IN IF fieldLocation = NoLocation \/ valueLocation = NoLocation THEN "TypeError"
     ELSE IF fieldLocation.row = valueLocation.row /\ fieldLocation.col = valueLocation.row
       THEN "IdenticalLocation"
     ELSE IF \/ JsLess(fieldLocation.row, 0) \/ JsGreater(fieldLocation.row, maxRow)
             \/ JsLess(fieldLocation.col, 0) \/ JsGreater(fieldLocation.col, maxCol)
       THEN "InvalidFieldLocation"
     ELSE IF \/ JsLess(valueLocation.row, 0) \/ JsGreater(valueLocation.row, maxRow)
             \/ JsLess(valueLocation.col, 0) \/ JsGreater(valueLocation.col, maxCol)
       THEN "InvalidValueLocation"
     ELSE "ok"

\* the check of one field inside the forEach: "ok" or the error thrown
ValidateField(field, maxRow, maxCol) ==
  LET fieldLocation == field.fieldLocation
      valueLocation == field.valueLocation
  IN IF fieldLocation = NoLocation \/ valueLocation = NoLocation THEN "TypeError"
     ELSE IF fieldLocation.row = valueLocation.row /\ fieldLocation.col = valueLocation.col
       THEN "IdenticalLocation"
     ELSE IF \/ JsLess(fieldLocation.row, 0) \/ JsGreater(fieldLocation.row, maxRow)
             \/ JsLess(fieldLocation.col, 0) \/ JsGreater(fieldLocation.col, maxCol)
       THEN "InvalidFieldLocation"
     ELSE IF \/ JsLess(valueLocation.row, 0) \/ JsGreater(valueLocation.row, maxRow)
             \/ JsLess(valueLocation.col, 0) \/ JsGreater(valueLocation.col, maxCol)
       THEN "InvalidValueLocation"
     ELSE "ok"

\* index of the first field whose check throws, 0 when none does
RECURSIVE FirstInvalid(_, _, _, _)
FirstInvalid(fields, i, maxRow, maxCol) ==
  IF i > Len(fields) THEN 0
  ELSE IF ValidateField(fields[i], maxRow, maxCol) # "ok" THEN i
  ELSE FirstInvalid(fields, i + 1, maxRow, maxCol)

analyzeTemplateStructure(size, parsedResponse) ==
  IF parsedResponse.orientation = "" \/ parsedResponse.notArray
    THEN [kind |-> "error", error |-> "InvalidStructure", field |-> <<>>]
  ELSE LET maxRow == size[1] - 1
           maxCol == MaxColOf(size[2])
           bad == FirstInvalid(parsedResponse.fields, 1, maxRow, maxCol)
       IN IF bad = 0
            THEN [kind |-> "structure", orientation |-> parsedResponse.orientation,
                  fields |-> parsedResponse.fields]
            ELSE [kind |-> "error",
                  error |-> ValidateField(parsedResponse.fields[bad], maxRow, maxCol),
                  field |-> parsedResponse.fields[bad]]

AnalysisInit ==
  /\ pc = "analysis"
  /\ selectedRange = NoRange /\ smartRange = NoRange /\ rangeSource = "none"
  /\ probes = {} /\ failures = {} /\ currentRegion = NoRange /\ usedRange = NoRange
  /\ templateRange = NoRange /\ analyzerCalls = <<>> /\ analysedRange = NoRange
  /\ raised = "none"
  /\ gridSize \in (1..MaxDim) \X (1..MaxDim)
  /\ analysis = [kind |-> "idle"]
  /\ NothingPopulated
  /\ NothingHighlighted
  /\ NoRuns

\* the model answers and analyzeTemplateStructure validates the answer
AnalyzeTemplateStructure ==
  /\ analysis.kind = "idle"
  /\ gridSize # <<0, 0>>
  /\ \E parsedResponse \in Responses :
       analysis' = analyzeTemplateStructure(gridSize, parsedResponse)
  /\ UNCHANGED <<gridSize, rangeVars, populateVars, validationVars, runVars>>

AnalysisNext == AnalyzeTemplateStructure

SpecAnalysis == AnalysisInit /\ [][AnalysisNext]_vars

(***************************************************************************)
(* excel.service.js: populateTemplate and its two orientations             *)
(***************************************************************************)
NameSet == { FieldNames[i] : i \in DOMAIN FieldNames }

\* cell texts of a template grid: empty, an upper-case label, a label that
\* contains both field names
CellTexts == { <<>>, <<"A">>, <<"a", "b">> }

Lower(ch) == IF ch = "A" THEN "a" ELSE IF ch = "B" THEN "b" ELSE ch

toLowerCase(text) == [i \in DOMAIN text |-> Lower(text[i])]

\* String.prototype.includes
includes(text, part) ==
  \E k \in 0 .. Len(text) - Len(part) :
    \A j \in 1 .. Len(part) : text[k + j] = part[j]

\* cellValue && cellValue.toString().toLowerCase().includes(fieldName.toLowerCase())
CellMatches(cellValue, fieldName) ==
  cellValue # <<>> /\ includes(toLowerCase(cellValue), toLowerCase(fieldName))

\* JavaScript values of a mapped row
Null == [type |-> "null", text |-> ""]
UndefinedValue == [type |-> "undefined", text |-> ""]
Str(s) == [type |-> "string", text |-> s]

Num(s) == [type |-> "number", text |-> s]
Bool(s) == [type |-> "boolean", text |-> s]
\* an object or array, with its JSON text
Obj(s) == [type |-> "object", text |-> s]

RowValues == { Null, Str("x") }

\* a mapped row is an object whose keys are some of the field names
Records == UNION { [D -> RowValues] : D \in SUBSET NameSet }

\* rows whose values are all a number, all a boolean or all an object
TypedRecords == { [n \in NameSet |-> v] : v \in { Num("1"), Bool("true"), Obj("{}") } }

\* the lists of at most MaxRecords mapped rows, and the one-row lists of
\* typed rows
MappedRows ==
  UNION { [1 .. n -> Records] : n \in 0 .. MaxRecords } \cup { <<r>> : r \in TypedRecords }

\* dataRow[key]
Get(dataRow, key) == IF key \in DOMAIN dataRow THEN dataRow[key] ELSE UndefinedValue

\* slip: the typeof "object" branch is missing
sanitizeValueForExcel_ObjectsPass(value) ==
  IF value.type \in {"null", "undefined"} THEN Str("")
  ELSE IF value.type \in {"string", "number", "boolean"} THEN value
  ELSE IF value.type = "object" THEN value
  ELSE Str(value.text)

sanitizeValueForExcel(value) ==
  IF value.type \in {"null", "undefined"} THEN Str("")
  ELSE IF value.type = "object" THEN Str(value.text)
  ELSE IF value.type \in {"string", "number", "boolean"} THEN value
  ELSE Str(value.text)

\* slip: a header missing from the row is left out instead of defaulted
validateMappedData_NoDefault(rows, templateHeaders) ==
  [i \in DOMAIN rows |->
     [header \in { templateHeaders[k] : k \in DOMAIN templateHeaders } \cap DOMAIN rows[i] |->
        rows[i][header]]]

validateMappedData(rows, templateHeaders) ==
  [i \in DOMAIN rows |->
     [header \in { templateHeaders[k] : k \in DOMAIN templateHeaders } |->
        IF header \in DOMAIN rows[i] THEN rows[i][header] ELSE Str("")]]

Cell(row, col) == [row |-> row, col |-> col]

Update(fieldName, row, col, value) ==
  [fieldName |-> fieldName, row |-> row, col |-> col, value |-> value]

\* slip: only the column is tested
InvalidPosition_ColumnOnly(targetRow, targetCol) == targetCol < 0

\* if (targetRow < 0 || targetCol < 0) throw
InvalidPosition(targetRow, targetCol) == targetRow < 0 \/ targetCol < 0

\* the forEach that builds cellUpdates: the updates and the targets computed
\* so far, and the error thrown ("none" when the loop ran to its end)
RECURSIVE CellUpdates(_, _, _, _, _)
CellUpdates(fields, dataRow, range, i, acc) ==
  IF i > Len(fields) THEN acc
  ELSE LET field == fields[i]
           value == Get(dataRow, field.fieldName)
           targetRow == range.rowIndex + field.fieldLocation.row
           targetCol == range.columnIndex + field.fieldLocation.col + 1
       IN IF value.type \in {"undefined", "null"}
            THEN CellUpdates(fields, dataRow, range, i + 1, acc)
          ELSE IF InvalidPosition(targetRow, targetCol)
            THEN [updates |-> acc.updates,
                  targets |-> Append(acc.targets, Cell(targetRow, targetCol)),
                  error |-> "InvalidPosition"]
          ELSE CellUpdates(fields, dataRow, range, i + 1,
                 [updates |-> Append(acc.updates,
                                Update(field.fieldName, targetRow, targetCol,
                                       sanitizeValueForExcel(value))),
                  targets |-> Append(acc.targets, Cell(targetRow, targetCol)),
                  error |-> "none"])

populateVerticalTemplate(validatedData, range, structure) ==
  LET dataRow == validatedData[1]
      built == CellUpdates(structure.fields, dataRow, range, 1,
                           [updates |-> <<>>, targets |-> <<>>, error |-> "none"])
  IN [validated |-> validatedData,
      targets |-> built.targets,
      writes |-> IF built.error = "none" THEN built.updates ELSE <<>>,
      error |-> built.error]

\* the loop over the rows of the range that picks headerRowIndex
RECURSIVE FindHeaderRow(_, _, _, _)
FindHeaderRow(grid, fields, row, headerRowIndex) ==
  IF row >= Len(grid) THEN headerRowIndex
  ELSE LET rowValues == grid[row + 1]
           matchingFields ==
             { i \in DOMAIN fields :
                 \E c \in DOMAIN rowValues : CellMatches(rowValues[c], fields[i].fieldName) }
       IN FindHeaderRow(grid, fields, row + 1,
            IF Cardinality(matchingFields) > headerRowIndex THEN row ELSE headerRowIndex)

\* Map.prototype.set on a list of entries kept in insertion order
MapSet(map, fieldName, col) ==
  IF \E k \in DOMAIN map : map[k].fieldName = fieldName
    THEN [k \in DOMAIN map |->
            IF map[k].fieldName = fieldName THEN [fieldName |-> fieldName, col |-> col]
            ELSE map[k]]
    ELSE Append(map, [fieldName |-> fieldName, col |-> col])

\* the forEach that fills fieldToColumnMap from the header row
RECURSIVE FieldToColumnMap(_, _, _, _, _)
FieldToColumnMap(fields, i, headerRow, columnIndex, map) ==
  IF i > Len(fields) THEN map
  ELSE LET cols == { c \in DOMAIN headerRow : CellMatches(headerRow[c], fields[i].fieldName) }
           col == CHOOSE c \in cols : \A d \in cols : c <= d
       IN FieldToColumnMap(fields, i + 1, headerRow, columnIndex,
            IF cols = {} THEN map
            ELSE MapSet(map, fields[i].fieldName, columnIndex + col - 1))

\* the loops over the data rows and the entries of fieldToColumnMap
DataRowUpdates(validatedData, dataStartRow, fieldToColumnMap, m) ==
  IF m = 0 THEN <<>>
  ELSE [k \in 1 .. Len(validatedData) * m |->
          LET dataRowIndex == (k - 1) \div m
              entry == fieldToColumnMap[((k - 1) % m) + 1]
          IN Update(entry.fieldName, dataStartRow + dataRowIndex, entry.col,
                    sanitizeValueForExcel(
                      Get(validatedData[dataRowIndex + 1], entry.fieldName)))]

Written(validatedData, updates) ==
  [validated |-> validatedData,
   targets |-> [k \in DOMAIN updates |-> Cell(updates[k].row, updates[k].col)],
   writes |-> updates,
   error |-> "none"]

HeaderRowOf(grid, headerRowIndex) ==
  IF headerRowIndex + 1 \in DOMAIN grid THEN grid[headerRowIndex + 1] ELSE <<>>

MappedColumns(validatedData, dataStartRow, fieldToColumnMap) ==
  Written(validatedData, DataRowUpdates(validatedData, dataStartRow, fieldToColumnMap, Len(fieldToColumnMap)))

PopulateBelow(validatedData, range, grid, structure, headerRowIndex) ==
  MappedColumns(validatedData, range.rowIndex + headerRowIndex + 1,
                FieldToColumnMap(structure.fields, 1, HeaderRowOf(grid, headerRowIndex),
                                 range.columnIndex, <<>>))

populateHorizontalTemplate(validatedData, range, grid, structure) ==
  PopulateBelow(validatedData, range, grid, structure,
                FindHeaderRow(grid, structure.fields, 0, 0))

populateTemplate(rows, range, grid, structure) ==
  IF Len(rows) = 0
    THEN [validated |-> <<>>, targets |-> <<>>, writes |-> <<>>, error |-> "none"]
  ELSE IF structure.kind # "structure"
    THEN [validated |-> <<>>, targets |-> <<>>, writes |-> <<>>,
          error |-> "MissingStructure"]
  ELSE LET headers == [k \in DOMAIN structure.fields |-> structure.fields[k].fieldName]
           validatedData == validateMappedData(rows, headers)
       IN IF structure.orientation = "vertical"
            THEN populateVerticalTemplate(validatedData, range, structure)
            ELSE populateHorizontalTemplate(validatedData, range, grid, structure)

\* the values of a template range of the given size, with at most MaxTexts
\* non-empty cells
Grids(size) ==
  LET cells == (1 .. size[1]) \X (1 .. size[2])
      filled == { S \in SUBSET cells : Cardinality(S) <= MaxTexts }
      texts == UNION { [S -> CellTexts \ { <<>> }] : S \in filled }
  IN { [r \in 1 .. size[1] |->
          [c \in 1 .. size[2] |-> IF <<r, c>> \in DOMAIN f THEN f[<<r, c>>] ELSE <<>>]]
       : f \in texts }

GridsOfSize == [size \in (1 .. MaxDim) \X (1 .. MaxDim) |-> Grids(size)]

\* the grid populateTemplate loads; only the horizontal branch reads it
LoadedValues(structure, size) ==
  IF structure.orientation = "vertical" THEN { <<>> } ELSE GridsOfSize[size]

Populate(rows, grid) ==
  \E result \in { populateTemplate(rows, templateRange, grid, analysis) } :
     /\ mappedData' = rows
     /\ validatedRows' = result.validated
     /\ values' = grid
     /\ targets' = result.targets
     /\ writes' = result.writes
     /\ populateError' = result.error
     /\ writeFailure' = [index |-> 0]
     /\ pc' = IF result.error = "none" THEN "populated" ELSE "failed"

(***************************************************************************)
(* population.js: the analysis of a template range followed by population  *)
(***************************************************************************)
GridLocations(size) == [row : 0 .. size[1] - 1, col : 0 .. size[2] - 1]

PopulationFields(i, size) ==
  [fieldName : {FieldNames[i]}, fieldLocation : GridLocations(size),
   valueLocation : GridLocations(size)]

\* the responses of the analysis call of a population run
PopulationResponses(size) ==
  [orientation : {"vertical", "horizontal"}, notArray : {FALSE},
   fields : {<<>>} \cup { <<f>> : f \in PopulationFields(1, size) }
            \cup { <<f, g>> : f \in PopulationFields(1, size), g \in PopulationFields(2, size) }]
  \cup [orientation : {OtherOrientation}, notArray : {FALSE},
        fields : { <<f>> : f \in PopulationFields(1, size) }]

Init ==
  /\ pc = "ready"
  /\ selectedRange = NoRange /\ smartRange = NoRange /\ rangeSource = "none"
  /\ probes = {} /\ failures = {} /\ currentRegion = NoRange /\ usedRange = NoRange
  /\ analyzerCalls = <<>> /\ analysedRange = NoRange
  /\ raised = "none"
  /\ \E r \in 0 .. MaxOrigin, c \in 0 .. MaxOrigin, rc \in 1 .. MaxDim, cc \in 1 .. MaxDim :
       /\ templateRange = Range(r, c, rc, cc)
       /\ gridSize = <<rc, cc>>
  /\ analysis = [kind |-> "idle"]
  /\ NothingPopulated
  /\ NothingHighlighted
  /\ NoRuns

\* executePopulation up to updateState: the analysis answers, and a structure
\* without fields ends the run
AnalyzeTemplate ==
  /\ pc = "ready"
  /\ \E parsedResponse \in PopulationResponses(gridSize) :
       LET result == analyzeTemplateStructure(gridSize, parsedResponse)
       IN /\ analysis' = result
          /\ pc' = IF result.kind = "structure" /\ result.fields # <<>>
                     THEN "analysed" ELSE "failed"
          /\ raised' = IF result.kind = "error" THEN result.error
                       ELSE IF result.fields = <<>> THEN "NoFields" ELSE "none"
  /\ UNCHANGED <<selectedRange, smartRange, rangeSource, probes, failures,
                 currentRegion, usedRange, templateRange, analyzerCalls, analysedRange>>
  /\ UNCHANGED <<gridSize, populateVars, validationVars, runVars>>

\* executePopulation from the mapping on: the mapped rows are populated
PopulateTemplate ==
  /\ pc = "analysed"
  /\ \E grid \in LoadedValues(analysis, gridSize), rows \in MappedRows :
       Populate(rows, grid)
  /\ UNCHANGED <<selectedRange, smartRange, rangeSource, probes, failures,
                 currentRegion, usedRange, templateRange, analyzerCalls, analysedRange,
                 raised>>
  /\ UNCHANGED <<analysisVars, validationVars, runVars>>

Next ==
  \/ AnalyzeTemplate
  \/ PopulateTemplate

Spec == Init /\ [][Next]_vars

(***************************************************************************)
(* populateTemplate called on its own, with a structure of the caller      *)
(***************************************************************************)
DirectCoordinates == -2 .. MaxDim - 1

\* the i-th field of a caller's vertical structure: the value cell is right
\* of the label, as the vertical branch places it
DirectFields(i) ==
  { [fieldName |-> FieldNames[i], fieldLocation |-> Cell(r, c),
     valueLocation |-> Cell(r, c + 1)] :
      r \in DirectCoordinates, c \in DirectCoordinates }

\* a header cell in the first row with its value below
HeaderFields(i) ==
  { [fieldName |-> n, fieldLocation |-> Cell(0, i - 1), valueLocation |-> Cell(1, i - 1)] :
      n \in NameSet }

DirectStructures ==
  [kind : {"structure"}, orientation : {"vertical"},
   fields : { <<f>> : f \in DirectFields(1) }
            \cup { <<f, g>> : f \in DirectFields(1), g \in DirectFields(2) }]
  \cup
  [kind : {"structure"}, orientation : {"horizontal"},
   fields : { <<f>> : f \in HeaderFields(1) }
            \cup { <<f, g>> : f \in HeaderFields(1), g \in HeaderFields(2) }]

DirectInit ==
  /\ pc = "direct"
  /\ selectedRange = NoRange /\ smartRange = NoRange /\ rangeSource = "none"
  /\ probes = {} /\ failures = {} /\ currentRegion = NoRange /\ usedRange = NoRange
  /\ analyzerCalls = <<>> /\ analysedRange = NoRange
  /\ raised = "none"
  /\ \E r \in 0 .. MaxOrigin, c \in 0 .. MaxOrigin :
       templateRange = Range(r, c, MaxDim, MaxDim)
  /\ gridSize = <<MaxDim, MaxDim>>
  /\ analysis \in DirectStructures
  /\ NothingPopulated
  /\ NothingHighlighted
  /\ NoRuns

PopulateDirect ==
  /\ pc = "direct"
  /\ \E grid \in LoadedValues(analysis, gridSize), rows \in MappedRows :
       Populate(rows, grid)
  /\ UNCHANGED <<selectedRange, smartRange, rangeSource, probes, failures,
                 currentRegion, usedRange, templateRange, analyzerCalls, analysedRange,
                 raised>>
  /\ UNCHANGED <<analysisVars, validationVars, runVars>>

DirectNext == PopulateDirect

SpecDirect == DirectInit /\ [][DirectNext]_vars

(***************************************************************************)
(* populateTemplate when a cell write fails (SpecWrite)                    *)
(***************************************************************************)
\* how a cell write fails: getCell or the assignment throws inside the try,
\* or the queued request is rejected when the batch is synchronized
WriteFailureModes == { "throws", "rejected" }

\* the error of the vertical catch names the field and the cell address
VerticalWriteError(update) ==
  [field |-> update.fieldName, cell |-> Cell(update.row, update.col)]

\* the error of the horizontal catch names the field
HorizontalWriteError(update) ==
  [field |-> update.fieldName, cell |-> NoLocation]

\* the error of a rejected context.sync() is the platform's own
SyncError == [field |-> <<>>, cell |-> NoLocation]

\* the writes that reach the sheet when write k fails: a rejected request
\* leaves the requests before it applied; after a throw the requests queued
\* so far are flushed or dropped by Excel.run
CommittedWrites(updates, k, mode, flushed) ==
  IF mode = "rejected" \/ flushed THEN SubSeq(updates, 1, k - 1) ELSE <<>>

WriteError(orientation, update, mode) ==
  IF mode = "rejected" THEN SyncError
  ELSE IF orientation = "vertical" THEN VerticalWriteError(update)
  ELSE HorizontalWriteError(update)

\* structures whose labels lie inside the range
WriteStructures ==
  { s \in DirectStructures :
      \A i \in DOMAIN s.fields :
        s.fields[i].fieldLocation.row >= 0 /\ s.fields[i].fieldLocation.col >= 0 }

WriteInit ==
  /\ pc = "write"
  /\ selectedRange = NoRange /\ smartRange = NoRange /\ rangeSource = "none"
  /\ probes = {} /\ failures = {} /\ currentRegion = NoRange /\ usedRange = NoRange
  /\ analyzerCalls = <<>> /\ analysedRange = NoRange
  /\ raised = "none"
  /\ \E r \in 0 .. MaxOrigin, c \in 0 .. MaxOrigin :
       templateRange = Range(r, c, MaxDim, MaxDim)
  /\ gridSize = <<MaxDim, MaxDim>>
  /\ analysis \in WriteStructures
  /\ NothingPopulated
  /\ NothingHighlighted
  /\ NoRuns

\* populateTemplate with a failure of its k-th cell write
PopulateWriteFails ==
  /\ pc = "write"
  /\ \E grid \in LoadedValues(analysis, gridSize), rows \in MappedRows :
       \E result \in { populateTemplate(rows, templateRange, grid, analysis) } :
         /\ result.error = "none"
         /\ \E k \in 1 .. Len(result.writes), mode \in WriteFailureModes, flushed \in BOOLEAN :
              /\ mappedData' = rows
              /\ validatedRows' = result.validated
              /\ values' = grid
              /\ targets' = result.targets
              /\ writes' = CommittedWrites(result.writes, k, mode, flushed)
              /\ populateError' = "WriteFailed"
              /\ writeFailure' = [index |-> k, update |-> result.writes[k],
                                  planned |-> result.writes,
                                  named |-> WriteError(analysis.orientation,
                                                       result.writes[k], mode)]
              /\ pc' = "failed"
  /\ UNCHANGED <<selectedRange, smartRange, rangeSource, probes, failures,
                 currentRegion, usedRange, templateRange, analyzerCalls, analysedRange,
                 raised>>
  /\ UNCHANGED <<analysisVars, validationVars, runVars>>

\* populateTemplate when every cell write goes through
PopulateWrites ==
  /\ pc = "write"
  /\ \E grid \in LoadedValues(analysis, gridSize), rows \in MappedRows :
       Populate(rows, grid)
  /\ UNCHANGED <<selectedRange, smartRange, rangeSource, probes, failures,
                 currentRegion, usedRange, templateRange, analyzerCalls, analysedRange,
                 raised>>
  /\ UNCHANGED <<analysisVars, validationVars, runVars>>

WriteNext == PopulateWriteFails \/ PopulateWrites

SpecWrite == WriteInit /\ [][WriteNext]_vars

(***************************************************************************)
(* excel.service.js: highlightMismatches, and the validation run that      *)
(* calls it                                                                *)
(***************************************************************************)
\* the mismatch objects of a comparison result: no property is required by
\* the response schema, coordinates may lie outside the range (a column below
\* zero behaves as a row below zero and is left out)
Mismatches ==
  [row : {Undefined} \cup (-1 .. MaxDim), col : 0 .. MaxDim,
   expectedValue : { UndefinedValue, Str("e") }, actualValue : { Str("x") }]

MismatchLists == UNION { [1 .. n -> Mismatches] : n \in 0 .. MaxMismatches }

\* how context.workbook.comments.add goes for one cell: queued and applied,
\* thrown at the call, or rejected when the batch is synchronized
AttachOutcomes == { "ok", "throws", "rejected" }

CellsOf(range) ==
  { Cell(range.rowIndex + r, range.columnIndex + c) :
      r \in 0 .. range.rowCount - 1, c \in 0 .. range.columnCount - 1 }

\* mismatch.row < excelData.length && mismatch.col < excelData[0].length
PassesUpperBound(mismatch, range) ==
  JsLess(mismatch.row, range.rowCount) /\ JsLess(mismatch.col, range.columnCount)

HasBothValues(mismatch) ==
  mismatch.expectedValue # UndefinedValue /\ mismatch.actualValue # UndefinedValue

validMismatches(list, range) ==
  SelectSeq(list, LAMBDA mismatch : PassesUpperBound(mismatch, range) /\ HasBothValues(mismatch))

\* selectedRange.getCell(row, col): the cell, and whether the grid accepts
\* the request when the batch is synchronized
getCell(range, row, col, platform) ==
  LET cell == Cell(range.rowIndex + row, range.columnIndex + col)
  IN [cell |-> cell,
      ok |-> \/ (row >= 0 /\ col >= 0)
             \/ (platform = "outside" /\ cell.row >= 0 /\ cell.col >= 0)]

\* the forEach that queues the fills and the sync after it: the requests
\* before a rejected one are applied
RECURSIVE FillCells(_, _, _, _, _)
FillCells(list, i, range, platform, acc) ==
  IF i > Len(list) THEN [fills |-> acc, failed |-> FALSE]
  ELSE IF ~PassesUpperBound(list[i], range)
    THEN FillCells(list, i + 1, range, platform, acc)
  ELSE LET target == getCell(range, list[i].row, list[i].col, platform)
       IN IF target.ok
            THEN FillCells(list, i + 1, range, platform, acc \cup { target.cell })
            ELSE [fills |-> acc, failed |-> TRUE]

\* the loop that queues the comments and the final sync: a comment whose add
\* throws is skipped, a rejected request fails the sync
RECURSIVE AddComments(_, _, _, _, _, _)
AddComments(valid, outcomes, i, range, platform, acc) ==
  IF i > Len(valid) THEN [annotations |-> acc, failed |-> FALSE]
  ELSE IF outcomes[i] = "throws"
    THEN AddComments(valid, outcomes, i + 1, range, platform, acc)
  ELSE LET target == getCell(range, valid[i].row, valid[i].col, platform)
       IN IF outcomes[i] = "ok" /\ target.ok
            THEN AddComments(valid, outcomes, i + 1, range, platform,
                             acc \cup { target.cell })
            ELSE [annotations |-> acc, failed |-> TRUE]

Highlighted(filled, comments) ==
  [fills |-> filled.fills,
   annotations |-> IF filled.failed THEN {} ELSE comments.annotations,
   raised |-> IF filled.failed \/ comments.failed THEN "SyncError" ELSE "none"]

\* slip: cells that already carry the fill are skipped, then the range is
\* cleared
highlightMismatches_SkipFilled(list, range, existing, platform, outcomes) ==
  IF Len(list) = 0
    THEN [fills |-> existing, annotations |-> {}, raised |-> "none"]
    ELSE Highlighted(
           FillCells(SelectSeq(list, LAMBDA mismatch :
                                 getCell(range, mismatch.row, mismatch.col, platform).cell
                                   \notin existing),
                     1, range, platform, existing \ CellsOf(range)),
           AddComments(validMismatches(list, range), outcomes, 1, range, platform, {}))

highlightMismatches(list, range, existing, platform, outcomes) ==
  IF Len(list) = 0
    THEN [fills |-> existing, annotations |-> {}, raised |-> "none"]
    ELSE Highlighted(
           FillCells(list, 1, range, platform, existing \ CellsOf(range)),
           AddComments(validMismatches(list, range), outcomes, 1, range, platform, {}))

Highlight(list, outcomes) ==
  \E result \in { highlightMismatches(list, selectedRange, fills, negativeGetCell, outcomes) } :
    /\ reported' = list
    /\ fillsBefore' = fills
    /\ fills' = result.fills
    /\ annotations' = result.annotations
    /\ attachOutcomes' = outcomes
    /\ raised' = result.raised
    /\ calls' = calls + 1

OutcomesFor(list) == [1 .. Len(validMismatches(list, selectedRange)) -> AttachOutcomes]

HighlightFrame ==
  /\ UNCHANGED <<pc, selectedRange, smartRange, rangeSource, probes, failures,
                 currentRegion, usedRange, templateRange, analyzerCalls, analysedRange>>
  /\ UNCHANGED <<negativeGetCell, analysisVars, populateVars, runVars>>

\* a range of MaxDim x MaxDim cells in the first column, at any of the first
\* rows; before a direct call its first cell may carry a fill left by an
\* earlier validation
HighlightStart(position) ==
  /\ pc = position
  /\ smartRange = NoRange /\ rangeSource = "none"
  /\ probes = {} /\ failures = {} /\ currentRegion = NoRange /\ usedRange = NoRange
  /\ templateRange = NoRange /\ analyzerCalls = <<>> /\ analysedRange = NoRange
  /\ raised = "none"
  /\ gridSize = <<0, 0>>
  /\ analysis = [kind |-> "idle"]
  /\ NothingPopulated
  /\ NoRuns
  /\ \E r \in 0 .. MaxOrigin :
       /\ selectedRange = Range(r, 0, MaxDim, MaxDim)
       /\ fills \in IF position = "highlight" THEN { {}, { Cell(r, 0) } } ELSE { {} }
  /\ negativeGetCell \in { "outside", "error" }
  /\ reported = <<>>
  /\ fillsBefore = {}
  /\ annotations = {}
  /\ attachOutcomes = <<>>
  /\ calls = 0

HighlightInit == HighlightStart("highlight")

\* highlightMismatches called with a mismatch list
HighlightMismatches ==
  /\ pc = "highlight"
  /\ calls = 0
  /\ \E list \in MismatchLists : \E outcomes \in OutcomesFor(list) :
       Highlight(list, outcomes)
  /\ HighlightFrame

\* highlightMismatches called again with the list of the call before
HighlightAgain ==
  /\ pc = "highlight"
  /\ calls \in 1 .. MaxCalls - 1
  /\ \E outcomes \in OutcomesFor(reported) : Highlight(reported, outcomes)
  /\ HighlightFrame

HighlightNext ==
  \/ HighlightMismatches
  \/ HighlightAgain

SpecHighlight == HighlightInit /\ [][HighlightNext]_vars

\* the comparison results of a validation run: complete mismatches at or
\* above the origin of the range
ComparedMismatches ==
  [row : 0 .. MaxDim, col : 0 .. MaxDim,
   expectedValue : { Str("e") }, actualValue : { Str("x") }]

ComparedLists == UNION { [1 .. n -> ComparedMismatches] : n \in 0 .. MaxMismatches }

ValidationInit == HighlightStart("validation")

\* executeValidation from the comparison on: the list is stored, and
\* highlightMismatches is called when it is not empty
ExecuteValidation ==
  /\ pc = "validation"
  /\ calls < MaxCalls
  /\ \E list \in ComparedLists :
       IF Len(list) > 0
         THEN \E outcomes \in OutcomesFor(list) : Highlight(list, outcomes)
         ELSE /\ reported' = list
              /\ fillsBefore' = fills
              /\ annotations' = {}
              /\ attachOutcomes' = <<>>
              /\ raised' = "none"
              /\ calls' = calls + 1
              /\ UNCHANGED fills
  /\ HighlightFrame

ValidationNext == ExecuteValidation

SpecValidation == ValidationInit /\ [][ValidationNext]_vars

(***************************************************************************)
(* The Run button (SpecRun): handleRunButton and executePopulation over    *)
(* the shared application state.  One step is the code between two awaits. *)
(***************************************************************************)

\* the stages of executePopulation in the order of its awaits
StageOrder == << "expansion", "analysis", "extraction", "mapping", "population" >>

Stages == { StageOrder[i] : i \in 1 .. Len(StageOrder) }

StageAfter(stage) ==
  LET i == CHOOSE k \in 1 .. Len(StageOrder) : StageOrder[k] = stage
  IN  IF i < Len(StageOrder) THEN StageOrder[i + 1] ELSE "done"

RunIds == 1 .. MaxCalls

\* the messages of the errors a stage can raise
ErrorsOf(stage) ==
  CASE stage = "expansion"  -> { "The selected range is empty" }
    [] stage = "analysis"   -> { "Invalid template analysis response structure",
                                 "No fields detected in template structure" }
    [] stage = "extraction" -> { "Could not parse structured data from the document" }
    [] stage = "mapping"    -> { "Expected array response from structured output" }
    [] stage = "population" -> { "No valid data to populate after validation",
                                 "Failed to populate field" }

NoError == ""

\* the status display: the text shown and the error message it carries
updateStatus(text, message) == [text |-> text, message |-> message]

showError(message) == [text |-> "error", message |-> message]

\* the outcome of validateInputs on the task pane's inputs
validateInputs(complete) ==
  IF complete THEN [isValid |-> TRUE, message |-> NoError]
              ELSE [isValid |-> FALSE, message |-> "Please provide the required inputs"]

\* the application state: which run stored each field (0: none yet)
InitialAppState ==
  [apiKey |-> 0, template |-> 0, extractedData |-> 0, mappedData |-> 0]

updateState(state, field, value) == [state EXCEPT ![field] = value]

NoStatus == [text |-> "none", message |-> NoError]

NewRun(position) ==
  [pc |-> position, error |-> NoError, status |-> NoStatus,
   structure |-> 0, address |-> 0]

Event(stage, kind) == [stage |-> stage, kind |-> kind]

InFlight(r) == r \in 1 .. Len(runs) /\ runs[r].pc \in Stages

\* where executePopulation goes after a stage ended with the given error
\* the swallowed variant drops the rethrow of the template analysis catch
executePopulation_SwallowTemplateError(stage, error) ==
  IF error # NoError /\ stage \notin { "expansion", "analysis" }
    THEN "failed"
    ELSE StageAfter(stage)
executePopulation(stage, error) ==
  IF error # NoError THEN "failed" ELSE StageAfter(stage)

\* the status executePopulation sets when the stage has ended
StatusAfter(stage, error) ==
  IF error # NoError
    THEN showError(error)
    ELSE CASE stage = "expansion"  -> statusText
           [] stage = "analysis"   -> updateStatus("Step 2: Extracting data", NoError)
           [] stage = "extraction" -> updateStatus("Step 3: Mapping data", NoError)
           [] stage = "mapping"    -> updateStatus("Step 4: Populating template", NoError)
           [] stage = "population" -> updateStatus("Population complete", NoError)

\* the fields of the application state a stage stores on success
StateAfter(r, stage) ==
  CASE stage = "analysis"   -> updateState(appState, "template", r)
    [] stage = "extraction" -> updateState(appState, "extractedData", r)
    [] stage = "mapping"    -> updateState(appState, "mappedData", r)
    [] OTHER                -> appState

RunFrame ==
  /\ UNCHANGED <<rangeVars, analysisVars, populateVars, validationVars>>

RunInit ==
  /\ pc = "taskpane"
  /\ selectedRange = NoRange /\ smartRange = NoRange /\ rangeSource = "none"
  /\ probes = {} /\ failures = {} /\ currentRegion = NoRange /\ usedRange = NoRange
  /\ templateRange = NoRange /\ analyzerCalls = <<>> /\ analysedRange = NoRange
  /\ raised = "none"
  /\ gridSize = <<0, 0>>
  /\ analysis = [kind |-> "idle"]
  /\ NothingPopulated
  /\ NothingHighlighted
  /\ runs = <<>>
  /\ appState = InitialAppState
  /\ statusText = updateStatus("", NoError)
  /\ stageLog = <<>>
  /\ cellLog = <<>>

\* handleRunButton up to its first await: the inputs are validated, the key
\* is stored and executePopulation starts analyzeTemplateSmart
HandleRunButton ==
  /\ Len(runs) < MaxCalls
  /\ \E complete \in BOOLEAN :
       LET r == Len(runs) + 1
           validation == validateInputs(complete)
       IN  IF ~ validation.isValid
             THEN /\ statusText' = showError(validation.message)
                  /\ runs' = Append(runs, [NewRun("rejected") EXCEPT
                                             !.status = showError(validation.message)])
                  /\ stageLog' = Append(stageLog, <<>>)
                  /\ UNCHANGED appState
             ELSE /\ appState' = updateState(appState, "apiKey", r)
                  /\ statusText' = updateStatus("Step 1: Analyzing Excel template", NoError)
                  /\ runs' = Append(runs, NewRun("expansion"))
                  /\ stageLog' = Append(stageLog, << Event("expansion", "start") >>)
  /\ UNCHANGED cellLog
  /\ RunFrame

\* the continuation of run r after the await of its current stage: the stage
\* has succeeded or raised, and executePopulation goes on or ends in the catch
\* blocks of executePopulation and handleRunButton
StageDone(r, error, wrote) ==
  LET stage  == runs[r].pc
      target == executePopulation(stage, error)
      ended  == Event(stage, IF error # NoError THEN "raised" ELSE "ok")
      cells  == [run |-> r, template |-> runs[r].address,
                 rows |-> [run |-> r, structure |-> runs[r].structure]]
      log1   == IF wrote THEN << Event(stage, "written"), ended >> ELSE << ended >>
      log2   == IF target \in Stages THEN << Event(target, "start") >> ELSE <<>>
  IN  /\ InFlight(r)
      /\ wrote => stage = "population"
      /\ (stage = "population" /\ error = NoError) => wrote
      /\ runs' = [runs EXCEPT
                    ![r].pc = target,
                    ![r].error = error,
                    ![r].structure = IF stage = "extraction" /\ target = "mapping"
                                       THEN appState.template
                                       ELSE @,
                    ![r].address = IF stage = "mapping" /\ target = "population"
                                     THEN appState.template
                                     ELSE @,
                    ![r].status = IF target \in Stages
                                    THEN @
                                    ELSE StatusAfter(stage, error)]
      /\ appState' = IF error = NoError THEN StateAfter(r, stage) ELSE appState
      /\ statusText' = StatusAfter(stage, error)
      /\ stageLog' = [stageLog EXCEPT ![r] = @ \o log1 \o log2]
      /\ cellLog' = IF wrote THEN Append(cellLog, cells) ELSE cellLog
      /\ RunFrame

StageSucceeds ==
  \E r \in RunIds : StageDone(r, NoError, r \in 1 .. Len(runs) /\ runs[r].pc = "population")

StageRaises ==
  \E r \in RunIds : \E wrote \in BOOLEAN :
    /\ InFlight(r)
    /\ \E error \in ErrorsOf(runs[r].pc) : StageDone(r, error, wrote)

RunNext == HandleRunButton \/ StageSucceeds \/ StageRaises

SpecRun == RunInit /\ [][RunNext]_vars

(***************************************************************************)
(* Properties of the population (Spec, SpecDirect)                         *)
(***************************************************************************)
Absolute(location) ==
  Cell(templateRange.rowIndex + location.row, templateRange.columnIndex + location.col)

WrittenCells == { Cell(writes[k].row, writes[k].col) : k \in DOMAIN writes }

LabelCells == { Absolute(analysis.fields[i].fieldLocation) : i \in DOMAIN analysis.fields }

\* C1: after a population with an accepted structure, no written cell is the
\* label cell of any field of that structure.
C1_LabelsNeverOverwritten ==
  pc = "populated" => WrittenCells \cap LabelCells = {}

\* C4: a vertical population writes, for each field with a defined value in
\* the first mapped row, the cell at range offset + valueLocation, and writes
\* no other cell.
C4_VerticalWritesValueLocations ==
  (pc = "populated" /\ analysis.orientation = "vertical" /\ mappedData # <<>>)
    => /\ \A i \in DOMAIN analysis.fields :
            Get(mappedData[1], analysis.fields[i].fieldName).type = "string"
              => \E k \in DOMAIN writes :
                   /\ writes[k].fieldName = analysis.fields[i].fieldName
                   /\ Cell(writes[k].row, writes[k].col)
                        = Absolute(analysis.fields[i].valueLocation)
       /\ \A k \in DOMAIN writes :
            \E i \in DOMAIN analysis.fields :
              Cell(writes[k].row, writes[k].col) = Absolute(analysis.fields[i].valueLocation)

\* C5: a horizontal population writes, for every field and every mapped row i
\* (0-based), that row's value of the field at row offset + valueLocation.row
\* + i and column offset + valueLocation.col.
C5_HorizontalWritesValueLocations ==
  (pc = "populated" /\ analysis.orientation = "horizontal")
    => \A i \in DOMAIN analysis.fields, r \in DOMAIN mappedData :
         \E k \in DOMAIN writes :
           /\ writes[k].fieldName = analysis.fields[i].fieldName
           /\ writes[k].row
                = templateRange.rowIndex + analysis.fields[i].valueLocation.row + (r - 1)
           /\ writes[k].col
                = templateRange.columnIndex + analysis.fields[i].valueLocation.col

\* C11: a population that ends with the success status had a non-empty list
\* of mapped rows; an empty list ends in an error.
C11_EmptyRowsEndInError ==
  pc = "populated" => mappedData # <<>>

StructureNames == { analysis.fields[i].fieldName : i \in DOMAIN analysis.fields }

PopulateCalled == pc \in {"populated", "failed"} /\ mappedData # <<>>

\* C12: the rows handed to the cell placement are as many as the mapped rows,
\* each has exactly the structure's field names as keys, a name missing from
\* the mapped row holds the empty string and a name present keeps its value.
C12_RowsClosedOverFieldNames ==
  PopulateCalled
    => /\ Len(validatedRows) = Len(mappedData)
       /\ \A i \in DOMAIN validatedRows :
            /\ DOMAIN validatedRows[i] = StructureNames
            /\ \A name \in StructureNames :
                 validatedRows[i][name]
                   = IF name \in DOMAIN mappedData[i] THEN mappedData[i][name] ELSE Str("")

C12_Witness ==
  /\ pc = "populated"
  /\ Len(mappedData) = 2
  /\ StructureNames = { FieldNames[1] }
  /\ DOMAIN mappedData[1] = { FieldNames[2] }
  /\ validatedRows[1] = [name \in { FieldNames[1] } |-> Str("")]
  /\ Len(validatedRows) = 2

\* the sanitization rule as the specification states it
Scalar(value) ==
  CASE value.type \in {"null", "undefined"} -> Str("")
    [] value.type = "object" -> Str(value.text)
    [] OTHER -> value

\* C13: every value written to a cell is a string, a number or a boolean, and
\* is the sanitized form of the value the row holds for the written field.
C13_WrittenValuesAreScalars ==
  \A k \in DOMAIN writes :
    /\ writes[k].value.type \in {"string", "number", "boolean"}
    /\ \E i \in DOMAIN validatedRows :
         writes[k].value = Scalar(validatedRows[i][writes[k].fieldName])

C13_Witness ==
  /\ pc = "populated"
  /\ analysis.orientation = "horizontal"
  /\ \E k \in DOMAIN writes :
       /\ writes[k].value = Str("{}")
       /\ validatedRows[1][writes[k].fieldName] = Obj("{}")

NegativeTarget == \E k \in DOMAIN targets : targets[k].row < 0 \/ targets[k].col < 0

\* C6: in both orientations, when a computed absolute target row or column is
\* below zero the call raises and has written no cell.
C6_NegativeTargetRejectedBeforeWrites ==
  /\ NegativeTarget => (populateError = "InvalidPosition" /\ writes = <<>>)
  /\ \A k \in DOMAIN writes : writes[k].row >= 0 /\ writes[k].col >= 0

C6_Witness ==
  /\ pc = "failed"
  /\ analysis.orientation = "vertical"
  /\ Len(targets) = 2
  /\ targets[1].row >= 0 /\ targets[1].col >= 0
  /\ targets[2].row < 0
  /\ populateError = "InvalidPosition"
  /\ writes = <<>>

(***************************************************************************)
(* Properties of the highlighting (SpecHighlight, SpecValidation)          *)
(***************************************************************************)
InBounds(mismatch) ==
  /\ mismatch.row \in 0 .. selectedRange.rowCount - 1
  /\ mismatch.col \in 0 .. selectedRange.columnCount - 1

CellOf(mismatch) ==
  Cell(selectedRange.rowIndex + mismatch.row, selectedRange.columnIndex + mismatch.col)

InBoundsCells == { CellOf(reported[i]) : i \in { j \in DOMAIN reported : InBounds(reported[j]) } }

CompleteInBoundsCells ==
  { CellOf(reported[i]) :
      i \in { j \in DOMAIN reported : InBounds(reported[j]) /\ HasBothValues(reported[j]) } }

AllAttached == \A i \in DOMAIN attachOutcomes : attachOutcomes[i] = "ok"

NoneBelowZero ==
  \A i \in DOMAIN reported :
    ~JsLess(reported[i].row, 0) /\ ~JsLess(reported[i].col, 0)

\* C14: a second call with the same mismatch list on the same range leaves
\* the set of filled cells the first call left.
C14_SecondCallSameFills ==
  calls >= 2 => fills = fillsBefore

C14_Witness ==
  /\ calls = 2
  /\ Len(reported) = 2
  /\ Cardinality(fills) = 2
  /\ fills = InBoundsCells
  /\ raised = "none"

\* C15: after any sequence of validation runs on a range, the filled cells
\* are the in-bounds mismatches of the latest run, also when the latest run
\* reports no mismatch.
C15_OnlyLatestRunHighlighted ==
  (calls >= 1 /\ raised = "none") => fills = InBoundsCells

\* C16: a mismatch outside the range (above the upper bound or below zero)
\* causes no fill and no annotation, and the in-bounds mismatches of the same
\* list are filled and annotated.
C16_OutOfBoundsExcluded ==
  (calls >= 1 /\ reported # <<>>)
    => /\ fills = InBoundsCells
       /\ annotations \subseteq CompleteInBoundsCells
       /\ AllAttached => (raised = "none" /\ annotations = CompleteInBoundsCells)

\* C17: the call fills and annotates exactly the cells of the mismatches that
\* are in bounds and carry both values; filled and annotated cells coincide.
C17_FilledEqualsAnnotated ==
  (calls >= 1 /\ reported # <<>> /\ NoneBelowZero /\ AllAttached)
    => /\ fills = CompleteInBoundsCells
       /\ annotations = CompleteInBoundsCells

\* C18: when attaching the comment fails for a cell, the call completes
\* without raising and every other valid mismatch keeps its fill and gets
\* its comment.
C18_AttachFailureSkipped ==
  (calls >= 1 /\ NoneBelowZero /\ ~AllAttached)
    => /\ raised = "none"
       /\ fills = InBoundsCells
       /\ \A i \in DOMAIN attachOutcomes :
            attachOutcomes[i] = "ok"
              => CellOf(validMismatches(reported, selectedRange)[i]) \in annotations

HorizontalPopulated ==
  pc = "populated" /\ analysis.orientation # "vertical" /\ writes # <<>>

\* the number of field names found in a row of the loaded grid
MatchCount(row) ==
  Cardinality({ i \in DOMAIN analysis.fields :
                  \E c \in DOMAIN values[row] :
                    CellMatches(values[row][c], analysis.fields[i].fieldName) })

\* the earliest row among those with the most field names (1-based)
BestHeaderRow ==
  CHOOSE r \in DOMAIN values :
    \A q \in DOMAIN values :
      MatchCount(r) > MatchCount(q) \/ (MatchCount(r) = MatchCount(q) /\ r <= q)

\* C26: in horizontal population the header row is the row of the range with
\* the most field names, the earliest one on a tie, and the first data row is
\* written immediately below it
C26_HeaderRowHasMostFieldNames ==
  HorizontalPopulated =>
    writes[1].row = templateRange.rowIndex + (BestHeaderRow - 1) + 1

\* C27: in one horizontal populate call no cell is written twice and every
\* field of the structure is written in every output row
C27_FieldsGetDistinctColumns ==
  HorizontalPopulated =>
    /\ \A i, j \in DOMAIN writes :
         i # j => Cell(writes[i].row, writes[i].col) # Cell(writes[j].row, writes[j].col)
    /\ Len(writes) = Len(analysis.fields) * Len(validatedRows)

\* C28: in vertical orientation every written cell lies inside the analysed
\* range, for every structure the analysis accepted
C28_VerticalWritesInsideRange ==
  (pc = "populated" /\ analysis.orientation = "vertical") =>
    \A i \in DOMAIN writes : ContainsCell(templateRange, writes[i].row, writes[i].col)

(***************************************************************************)
(* Properties of the structure analysis (SpecAnalysis)                     *)
(***************************************************************************)
\* C2: analyzeTemplateStructure returns only structures whose every field has
\* a label position different from its value position; a response with such
\* a field is answered by an error that carries the offending field.
C2_NoIdenticalLocationReturned ==
  /\ analysis.kind = "structure"
       => \A i \in DOMAIN analysis.fields :
            analysis.fields[i].fieldLocation # analysis.fields[i].valueLocation
  /\ (analysis.kind = "error" /\ analysis.error = "IdenticalLocation")
       => analysis.field.fieldLocation = analysis.field.valueLocation

C2_Witness ==
  /\ analysis.kind = "error"
  /\ analysis.error = "IdenticalLocation"
  /\ analysis.field.fieldName = FieldNames[2]
  /\ analysis.field.fieldLocation.col = Undefined

InGrid(location) ==
  /\ location.row \in 0 .. gridSize[1] - 1
  /\ location.col \in 0 .. gridSize[2] - 1

\* C3: every field of a returned structure has its label position and its
\* value position inside the analysed grid, also when the model left a
\* coordinate out or the grid has one column.
C3_LocationsInsideGrid ==
  analysis.kind = "structure"
    => \A i \in DOMAIN analysis.fields :
         InGrid(analysis.fields[i].fieldLocation) /\ InGrid(analysis.fields[i].valueLocation)

(***************************************************************************)
(* Properties of the range expansion (SpecRange)                           *)
(***************************************************************************)
Expanded == pc \notin {"idle", "selected"}

AnalysisEnded == pc \in {"analysed", "failed"}

\* C7: the template expansion path never hands a range of one row and more
\* than three columns to the structure analyzer, whatever the outcome of the
\* padding and emergency grid calls.
C7_NoSingleWideRowAnalysed ==
  \A i \in DOMAIN analyzerCalls :
    ~(analyzerCalls[i].rowCount = 1 /\ analyzerCalls[i].columnCount > 3)

\* C8: a selection of more than one row or more than one column comes back
\* from getSmartRange with the same offset and extent, and neither the
\* current-region nor the used-range probe is issued.
C8_MultiCellUnchanged ==
  (Expanded /\ (selectedRange.rowCount > 1 \/ selectedRange.columnCount > 1))
    => /\ smartRange = selectedRange
       /\ probes \cap {"currentRegion", "usedRange"} = {}

C8_Witness ==
  /\ pc = "smart"
  /\ selectedRange.rowCount = 1 /\ selectedRange.columnCount > 1
  /\ smartRange = selectedRange

\* a single selected cell without contiguous block (the current-region probe
\* failed or answered the cell itself) whose used-range fallback failed or is
\* degenerate
LoneCellNoFallback ==
  /\ selectedRange.rowCount = 1 /\ selectedRange.columnCount = 1
  /\ "currentRegion" \in failures
       \/ (currentRegion.rowCount = 1 /\ currentRegion.columnCount = 1)
  /\ "usedRange" \in probes
  /\ "usedRange" \in failures \/ usedRange.rowCount = 0 \/ usedRange.columnCount = 0

C24_SingleRowPaddedBelowOnly ==
  (pc \in {"template", "analysed", "failed"}
     /\ smartRange.rowCount = 1 /\ templateRange # smartRange)
    => LET startCol == Max(0, smartRange.columnIndex - 2)
       IN templateRange =
            Range(smartRange.rowIndex, startCol, smartRange.rowCount + 8,
                  smartRange.columnIndex + smartRange.columnCount + 2 - startCol)

RuleV(range) == range.rowCount >= 2 /\ range.columnCount >= 2

\* C25: for a single selected cell whose probes all succeeded, getSmartRange
\* returns the contiguous block when it satisfies rule V; otherwise, when the
\* block has more than one row or column, the padded block if that satisfies
\* rule V and the unpadded block if not; and the (non-degenerate) used range
\* when the block is the lone cell
C25_SingleCellExpansion ==
  (Expanded /\ IsSingleCell(selectedRange) /\ failures = {})
    => IF RuleV(currentRegion)
         THEN smartRange = currentRegion
       ELSE IF currentRegion.rowCount > 1 \/ currentRegion.columnCount > 1
         THEN smartRange = IF RuleV(addRangePadding(currentRegion, 3, 2))
                             THEN addRangePadding(currentRegion, 3, 2)
                             ELSE currentRegion
       ELSE (usedRange.rowCount > 0 /\ usedRange.columnCount > 0)
              => smartRange = usedRange

\* a single cell inside a block of one row and three columns
C25_Witness ==
  /\ pc = "smart"
  /\ IsSingleCell(selectedRange) /\ failures = {}
  /\ currentRegion.rowCount = 1 /\ currentRegion.columnCount = 3
  /\ smartRange = addRangePadding(currentRegion, 3, 2)

\* C30: the wasExpanded flag of the returned analysis is true exactly when
\* the analysed range differs in offset or extent from the selection
C30_WasExpandedIffRangeDiffers ==
  pc = "analysed" => (analysis.wasExpanded <=> (analysedRange # selectedRange))

(***************************************************************************)
(* Properties of the runs (SpecRun)                                        *)
(***************************************************************************)

IsStart(e) == e.kind = "start"

C20_AtMostOneRunInFlight ==
  Cardinality({ r \in 1 .. Len(runs) : InFlight(r) }) <= 1

\* C21: the application state is reset between runs, so after a run that
\* failed during its analysis the state holds no template structure stored by
\* an earlier run
C21_NoStructureOfEarlierRun ==
  \A r \in 1 .. Len(runs) :
    ( /\ runs[r].pc = "failed"
      /\ stageLog[r][Len(stageLog[r])] = Event("analysis", "raised")
      /\ \A q \in 1 .. Len(runs) : ~ InFlight(q) )
    => appState.template \notin 1 .. (r - 1)

\* C22: when a cell write fails, the error names the field and the cell of
\* the failing write, the cells written are exactly those of the writes before
\* the failing one (none after it, none rolled back), in both orientations
C22_WriteFailureNamesFieldAndCell ==
  populateError = "WriteFailed" =>
    /\ writeFailure.named.field = writeFailure.update.fieldName
    /\ writeFailure.named.cell = Cell(writeFailure.update.row, writeFailure.update.col)
    /\ writes = SubSeq(writeFailure.planned, 1, writeFailure.index - 1)

\* C23: a structure whose orientation is neither "vertical" nor "horizontal"
\* is rejected by the analysis, so no population ever writes cells for one
C23_OtherOrientationNeverPopulated ==
  (pc = "populated" /\ writes # <<>>) =>
    analysis.orientation \in {"vertical", "horizontal"}

\* C29: every population writes with the structure and the range address of
\* its own run's analysis, and its rows were mapped against that structure
C29_PopulateUsesOwnAnalysis ==
  \A i \in DOMAIN cellLog :
    /\ cellLog[i].template = cellLog[i].run
    /\ cellLog[i].rows.structure = cellLog[i].run

====
